---- MODULE Spec2Model ----
(***************************************************************************)
(* A model of models/model.py: the Parrot and SimpleParrot sequence        *)
(* generators (attention + gated recurrent stages + mixture emitters).     *)
(*                                                                         *)
(* Numbers are fixed-point integers with One units per 1.0.  exp and log   *)
(* are the base-2 quantised ExpQ and LogQ; batch size, the recurrent       *)
(* dimensions and att_size are 1, so every hidden state and kappa is a     *)
(* scalar and w is a vector of num_letters entries.                        *)
(***************************************************************************)
EXTENDS Integers, Sequences, FiniteSets, TLC

\* ------------------------------------------------------------------ bounds
MaxCalls == 2
MaxSeqLen == 3
MaxSteps == 2
MaxReadout == 8
MaxRow == 3

\* ------------------------------------------------- configuration of the net
One == 4
Epsilon == 1
MaskEpsilon == 1
num_freq == 2
k_spectrum == 2
k_f0 == 2
num_letters == 2
sampling_bias == 0
attention_mult_inv == 20

\* ------------------------------------------------------------- arithmetic
Max2(a, b) == IF a >= b THEN a ELSE b
Min2(a, b) == IF a <= b THEN a ELSE b
Clip(x, lo, hi) == Max2(lo, Min2(x, hi))

\* fixed-point product
Mul(a, b) == (a * b) \div One

RECURSIVE Pow2(_)
Pow2(n) == IF n <= 0 THEN 1 ELSE 2 * Pow2(n - 1)

RECURSIVE SumTo(_, _)
SumTo(s, n) == IF n = 0 THEN 0 ELSE s[n] + SumTo(s, n - 1)
SumSeq(s) == SumTo(s, Len(s))

RECURSIVE MaxTo(_, _)
MaxTo(s, n) == IF n = 1 THEN s[1] ELSE Max2(s[n], MaxTo(s, n - 1))
MaxSeq(s) == MaxTo(s, Len(s))

Last(s) == s[Len(s)]
Rest(s) == SubSeq(s, 2, Len(s))
Front(s) == SubSeq(s, 1, Len(s) - 1)
Zeros(n) == [i \in 1..n |-> 0]

\* tensor.exp: 2^x in fixed point, x in fixed point; underflows to 0
RECURSIVE Halve(_, _)
Halve(v, n) == IF n = 0 \/ v = 0 THEN v ELSE Halve(v \div 2, n - 1)
ExpQ(x) ==
    LET e == x \div One
    IN  IF e >= 0 THEN One * Pow2(e) ELSE Halve(One, -e)

\* floor(log2(n/d)) for n, d > 0
RECURSIVE Log2Up(_, _)
Log2Up(n, d) == IF 2 * d <= n THEN 1 + Log2Up(n, 2 * d) ELSE 0
RECURSIVE Log2Down(_, _)
Log2Down(n, d) == IF n < d THEN 1 + Log2Down(2 * n, d) ELSE 0

\* tensor.log of the ratio n/d, in fixed point
LogQ(n, d) == IF n >= d THEN One * Log2Up(n, d) ELSE -(One * Log2Down(n, d))

\* blocks Logistic: a sigmoid, with values strictly between 0 and 1
Logistic(x) == Clip((x \div 2) + (One \div 2), 1, One - 1)
\* the gate activation and the activation of GatedRecurrent
GateAct(x) == Clip((x \div 2) + (One \div 2), 0, One)
TanhAct(x) == Clip(x, -One, One)

\* ------------------------------------------------------------------ bricks
\* Every Linear/Fork brick has its own weights; a brick is named by the seed
\* of its weights.
inp_to_h1 == 1
inp_to_h2 == 4
inp_to_h3 == 7
h1_to_h2 == 10
h1_to_h3 == 13
h2_to_h3 == 16
h1_to_readout == 19
h2_to_readout == 20
h3_to_readout == 21
h1_to_att == 22
att_to_h1 == 25
att_to_h2 == 28
att_to_h3 == 31
readouts_to_rnn2 == 34
spectrum_to_rnn2 == 37
f0_to_rnn2 == 40
data_to_rnn2 == 43
att_to_readout == 46
f0_emitter_binary == 47
f0_gmm == 48
spectrum_gmm == 60

Coef(seed, i) == IF (seed + i) % 3 = 0 THEN -1 ELSE 1
Bias(seed) == (seed % 3) - 1

\* Linear.apply: one output of an affine map of the vector x
RECURSIVE Dot(_, _, _)
Dot(seed, x, i) ==
    IF i > Len(x) THEN 0 ELSE Coef(seed, i) * x[i] + Dot(seed, x, i + 1)
Linear(seed, x) == Dot(seed, x, 1) + Bias(seed)

\* Fork.apply with output_dims [dim, 2*dim]: the cell input and the two
\* gate pre-activations (update, reset)
Fork(seed, x) ==
    [inp |-> Linear(seed, x),
     gat |-> <<Linear(seed + 1, x), Linear(seed + 2, x)>>]

AddFork(a, b) ==
    [inp |-> a.inp + b.inp,
     gat |-> <<a.gat[1] + b.gat[1], a.gat[2] + b.gat[2]>>]
AddFork3(a, b, c) ==
    [inp |-> a.inp + b.inp + c.inp,
     gat |-> <<a.gat[1] + b.gat[1] + c.gat[1], a.gat[2] + b.gat[2] + c.gat[2]>>]
AddFork4(a, b, c, d) ==
    [inp |-> a.inp + b.inp + c.inp + d.inp,
     gat |-> <<a.gat[1] + b.gat[1] + c.gat[1] + d.gat[1],
               a.gat[2] + b.gat[2] + c.gat[2] + d.gat[2]>>]

\* GatedRecurrent.apply(inputs, gate_inputs, states, iterate=False)
GatedRecurrent(inputs, gate_inputs, states) ==
    LET update == GateAct(states + gate_inputs[1])
        reset == GateAct(states + gate_inputs[2])
        cand == TanhAct(Mul(states, reset) + inputs)
    IN  (cand * update + states * (One - update)) \div One

\* ---------------------------------------------------------------- emitters
\* utils: the standardized clipping limits of f0 and of the spectrum
F0Upper == 2 * One
F0Lower == -One
SpectrumUpper == 2 * One
SpectrumLower == -(2 * One)

\* a softmax whose floored weights are renormalised to sum to 1
SoftmaxRenormalised(x, eps) ==
    LET m == MaxSeq(x)
        e == [c \in 1..Len(x) |-> ExpQ(x[c] - m)]
        D == SumSeq(e)
    IN  [num |-> [c \in 1..Len(x) |-> e[c] * One + eps * D],
         den |-> D * One + Len(x) * eps * D]

\* tensor.nnet.softmax(x) + epsilon: the weights as exact fractions num[c]/den
SoftmaxPlusEps(x, eps) ==
    LET m == MaxSeq(x)
        e == [c \in 1..Len(x) |-> ExpQ(x[c] - m)]
        D == SumSeq(e)
    IN  [num |-> [c \in 1..Len(x) |-> e[c] * One + eps * D], den |-> D * One]

\* GMMEmitter.components
Components(seed, dim, k, bias, inputs) ==
    LET state == [j \in 0..(2 * dim * k + k - 1) |-> Linear(seed + j, inputs)]
        mu == [d \in 1..dim |-> [c \in 1..k |-> state[(d - 1) * k + (c - 1)]]]
        sraw == [d \in 1..dim |->
                    [c \in 1..k |-> state[dim * k + (d - 1) * k + (c - 1)]]]
        wraw == [c \in 1..k |-> state[2 * dim * k + (c - 1)]]
        wscaled == [c \in 1..k |-> Mul(wraw[c], One + bias)]
    IN  [mu |-> mu,
         sigma |-> [d \in 1..dim |->
                      [c \in 1..k |-> ExpQ(sraw[d][c] - bias) + Epsilon]],
         weight |-> SoftmaxPlusEps(wscaled, Epsilon)]

\* arguments of exp shifted by less than the maximum of the row
LogSumExpArgsShort(x) ==
    LET x_max == MaxSeq(x) IN [c \in 1..Len(x) |-> x[c] - (x_max - One)]

\* logsumexp over the last axis: x - x_max, the sum of the exponentials, and
\* the log of the sum plus x_max
LogSumExpArgs(x) == LET x_max == MaxSeq(x) IN [c \in 1..Len(x) |-> x[c] - x_max]
LogSumExpSum(a) == SumSeq([c \in 1..Len(a) |-> ExpQ(a[c])])
logsumexp(x) == LogQ(LogSumExpSum(LogSumExpArgs(x)), One) + MaxSeq(x)

Log2Pi == LogQ(25, 4)

\* cost_gmm(y, mu, sig, weight) for one row; y has dim entries
cost_gmm(y, mu, sig, weight) ==
    LET dim == Len(mu)
        k == Len(weight.num)
        term(d, c) ==
            LET s == sig[d][c]
                r == ((y[d] - mu[d][c]) * One) \div s
            IN  Mul(r, r) + 2 * LogQ(s, One) + Log2Pi
        inner == [c \in 1..k |->
                    LET terms == [d \in 1..dim |-> term(d, c)]
                    IN  (-SumSeq(terms)) \div 2]
        x == [c \in 1..k |-> LogQ(weight.num[c], weight.den) + inner[c]]
    IN  -logsumexp(x)

\* sample_gmm: idx is the component the multinomial draws (any component of
\* positive weight), noise the standard normal draw of every dimension
sample_gmm(mu, sigma, weight, idx, noise) ==
    [d \in 1..Len(mu) |-> mu[d][idx] + Mul(sigma[d][idx], noise[d])]

\* cost_gmm / sample_gmm on the components (mu, sigma, weight)
CostOf(c, outputs) == cost_gmm(outputs, c.mu, c.sigma, c.weight)
SampleOf(c, idx, noise) == sample_gmm(c.mu, c.sigma, c.weight, idx, noise)

\* GMMEmitter.cost
GMMCost(seed, dim, k, readouts, outputs) ==
    CostOf(Components(seed, dim, k, sampling_bias, readouts), outputs)

\* GMMEmitter.emit
GMMEmit(seed, dim, k, readouts, idx, noise) ==
    SampleOf(Components(seed, dim, k, sampling_bias, readouts), idx, noise)

\* tensor.xlogx.xlogy0
xlogy0(x, y) == IF x = 0 THEN 0 ELSE Mul(x, LogQ(y, One))

\* the two terms of F0Emitter.cost
F0CrossEntropy(readouts, voiced) ==
    LET binary == Logistic(Linear(f0_emitter_binary, readouts))
        nbinary == One - binary
    IN  xlogy0(voiced, binary) + xlogy0(One - voiced, nbinary)
\* the GMM term without the factor voiced
F0GmmTermUnmasked(readouts, f0, voiced) ==
    GMMCost(f0_gmm, 1, k_f0, readouts, <<f0>>)
F0GmmTerm(readouts, f0, voiced) ==
    LET gmm_cost == GMMCost(f0_gmm, 1, k_f0, readouts, <<f0>>)
    IN  Mul(gmm_cost, voiced)

\* F0Emitter.cost
F0Cost(readouts, f0, voiced) ==
    F0GmmTerm(readouts, f0, voiced) - F0CrossEntropy(readouts, voiced)

\* an emit that leaves out tensor.maximum(f0_sample, lower limit)
F0EmitNoLowerLimit(readouts, un, idx, noise, lower, upper) ==
    LET binary == Logistic(Mul(Linear(f0_emitter_binary, readouts),
                               One + sampling_bias))
        binary_sample == IF un < binary THEN One ELSE 0
        f0_sample == GMMEmit(f0_gmm, 1, k_f0, readouts, idx, <<noise>>)[1]
        clipped == Min2(f0_sample, upper)
    IN  [f0 |-> Mul(clipped, binary_sample), voiced |-> binary_sample]

\* F0Emitter.emit: un is the uniform draw, (idx, noise) the draws of the GMM
F0Emit(readouts, un, idx, noise, lower, upper) ==
    LET lin == Linear(f0_emitter_binary, readouts)
        scaled == Mul(lin, One + sampling_bias)
        binary == Logistic(scaled)
        binary_sample == IF un < binary THEN One ELSE 0
        f0_sample == GMMEmit(f0_gmm, 1, k_f0, readouts, idx, <<noise>>)[1]
        clipped == Max2(Min2(f0_sample, upper), lower)
    IN  [f0 |-> Mul(clipped, binary_sample), voiced |-> binary_sample]

\* --------------------------------------------------------------- attention
\* one_hot(transcripts, num_letters) * shape_padright(transcripts_mask)
one_hot(t, r) == [u \in 1..Len(t) |-> [l \in 1..r |-> IF t[u] = l - 1 THEN 1 ELSE 0]]
\* a one-hot encoding that leaves out the validity mask
TranscriptsOhUnmasked(letters, letters_mask) ==
    LET oh == one_hot(letters, num_letters)
    IN  [u \in 1..Len(letters) |-> [l \in 1..num_letters |-> oh[u][l] * One]]
TranscriptsOh(transcripts, transcripts_mask) ==
    LET oh == one_hot(transcripts, num_letters)
    IN  [u \in 1..Len(transcripts) |->
            [l \in 1..num_letters |-> oh[u][l] * transcripts_mask[u]]]

\* h1_to_att.apply followed by tensor.exp: alpha, beta and the increment of
\* kappa
AttParams(h1_t) ==
    [a |-> ExpQ(Linear(h1_to_att, <<h1_t>>)),
     b |-> ExpQ(Linear(h1_to_att + 1, <<h1_t>>)),
     e |-> ExpQ(Linear(h1_to_att + 2, <<h1_t>>))]

\* kappa is kept in units of 1/(One * attention_mult_inv), so that
\* attention_mult * exp(.) is exact
KappaFull(e) == e * attention_mult_inv
KappaMult(e) == e

\* phi_t = sum(a_t * exp(-b_t * (k_t - u)^2), axis=1), u = 0..len-1
Phi(a, b, k, len) ==
    [u \in 1..len |->
        LET d == (k \div attention_mult_inv) - (u - 1) * One
        IN  Mul(a, ExpQ(-Mul(b, Mul(d, d))))]

\* w_t = (shape_padright(phi_t) * ctx).sum(axis=1)
Context(phi, ctx) ==
    [l \in 1..num_letters |->
        SumSeq([u \in 1..Len(ctx) |-> Mul(phi[u], ctx[u][l])])]

\* the attention of one step, from the new position k_t
Window(p, k_t, phi_t, ctx) ==
    [kappa |-> k_t, phi |-> phi_t, w |-> Context(phi_t, ctx), a |-> p.a]
Attend(p, k_t, ctx) == Window(p, k_t, Phi(p.a, p.b, k_t, Len(ctx)), ctx)
\* k_t = k_tm1 + tensor.exp(k_t)
AttendFull(p, k_tm1, ctx) == Attend(p, k_tm1 + KappaFull(p.e), ctx)
\* k_t = k_tm1 + self.attention_mult * tensor.exp(k_t)
AttendMult(p, k_tm1, ctx) == Attend(p, k_tm1 + KappaMult(p.e), ctx)

\* a recurrent cell applied to the summed outputs of the forks
Cell(f, h_tm1) == GatedRecurrent(f.inp, f.gat, h_tm1)

\* ------------------------------------------------------ Parrot (3 layers)
ZeroState ==
    [h1 |-> 0, h2 |-> 0, h3 |-> 0, kappa |-> 0, w |-> Zeros(num_letters)]

\* the three cells of a step (lines 462-466, 491-494, 498-501)
Layer1(x_t, s) ==
    Cell(AddFork(Fork(inp_to_h1, x_t), Fork(att_to_h1, s.w)), s.h1)
Layer2(x_t, s, h1_t, w_t) ==
    Cell(AddFork3(Fork(inp_to_h2, x_t), Fork(h1_to_h2, <<h1_t>>),
                  Fork(att_to_h2, w_t)), s.h2)
Layer3(x_t, s, h1_t, h2_t, w_t) ==
    Cell(AddFork4(Fork(inp_to_h3, x_t), Fork(h1_to_h3, <<h1_t>>),
                  Fork(h2_to_h3, <<h2_t>>), Fork(att_to_h3, w_t)), s.h3)

\* step / sample_one_step, in the order of the code: h1_t, then the
\* attention att, then h2_t, then h3_t
StepResult(h1_t, att, h2_t, h3_t) ==
    [h1 |-> h1_t, h2 |-> h2_t, h3 |-> h3_t, kappa |-> att.kappa, w |-> att.w,
     phi |-> att.phi, a |-> att.a]
StepFromH2(x_t, s, h1_t, att, h2_t) ==
    StepResult(h1_t, att, h2_t, Layer3(x_t, s, h1_t, h2_t, att.w))
\* a step whose second layer reads the context of the step before
StepFromAttOldContext(x_t, s, h1_t, att) ==
    StepFromH2(x_t, s, h1_t, att, Layer2(x_t, s, h1_t, s.w))
StepFromAtt(x_t, s, h1_t, att) ==
    StepFromH2(x_t, s, h1_t, att, Layer2(x_t, s, h1_t, att.w))
StepFromH1(x_t, s, ctx, h1_t) ==
    StepFromAtt(x_t, s, h1_t, AttendFull(AttParams(h1_t), s.kappa, ctx))
ParrotStep(x_t, s, ctx) == StepFromH1(x_t, s, ctx, Layer1(x_t, s))

StateOf(r) == [h1 |-> r.h1, h2 |-> r.h2, h3 |-> r.h3, kappa |-> r.kappa, w |-> r.w]

\* theano.scan(fn=step, ..., outputs_info=[initial_h1, ...]): the states of
\* all steps, in order
RECURSIVE ParrotScan(_, _, _)
ParrotScanFrom(s1, rest, ctx) == <<s1>> \o ParrotScan(rest, s1, ctx)
ParrotScan(x, s, ctx) ==
    IF x = <<>> THEN <<>>
    ELSE ParrotScanFrom(StateOf(ParrotStep(Head(x), s, ctx)), Tail(x), ctx)

ParrotReadout(s) ==
    Linear(h1_to_readout, <<s.h1>>) +
    Linear(h2_to_readout, <<s.h2>>) +
    Linear(h3_to_readout, <<s.h3>>)

\* the context of the second recurrent stage, the same for every bin
Rnn2Context(readout, f0v, x_t) ==
    AddFork3(Fork(readouts_to_rnn2, <<readout>>), Fork(f0_to_rnn2, f0v),
             Fork(data_to_rnn2, x_t))

\* theano.scan(fn=step_rnn2, ..., outputs_info=[initial_rnn2]) over the bins
RECURSIVE Rnn2Scan(_, _, _)
Rnn2ScanFrom(h1_t, rest, c) == <<h1_t>> \o Rnn2Scan(rest, c, h1_t)
Rnn2Scan(inp, c, h) ==
    IF inp = <<>> THEN <<>>
    ELSE Rnn2ScanFrom(Cell(AddFork(Fork(spectrum_to_rnn2, <<Head(inp)>>), c), h),
                      Tail(inp), c)

\* an input that feeds every bin its own target value
InputSpectrumUnshifted(target) == target

\* input_spectrum: a zero, then the target bins but the last
InputSpectrum(target) == <<0>> \o Front(target)

\* the spectrum cost of one frame: spectrum_emitter.cost(...).sum(axis=0)
SpectrumCostOf(h_rnn2, target) ==
    SumSeq([j \in 1..Len(target) |->
               GMMCost(spectrum_gmm, 1, k_spectrum, <<h_rnn2[j]>>, <<target[j]>>)])
SpectrumCost(readout, f0v, x_t, target) ==
    SpectrumCostOf(Rnn2Scan(InputSpectrum(target),
                            Rnn2Context(readout, f0v, x_t), 0), target)

\* a numerator that leaves out the mask
MaskedNumUnmasked(cost, mask) == SumSeq(cost)

\* (cost * mask).sum() / (mask.sum() + 1e-5)
MaskedNum(cost, mask) ==
    LET masked == [t \in 1..Len(cost) |-> Mul(cost[t], mask[t])]
    IN  SumSeq(masked)
MaskedDen(mask) == SumSeq(mask) + MaskEpsilon
MaskedCost(cost, mask) ==
    LET num == MaskedNum(cost, mask)
        den == MaskedDen(mask)
    IN  [num |-> num, den |-> den, value |-> (num * One) \div den]

\* a switch with its two branches exchanged
SwitchSwapped(start_flag, zero, last) == IF start_flag # 0 THEN last ELSE zero

\* tensor.switch(start_flag, 0. * initial, last)
Switch(start_flag, zero, last) == IF start_flag # 0 THEN zero ELSE last

\* a function applies its updates after its outputs are computed: every pair
\* (shared variable, new value) is written once
RECURSIVE ApplyUpdates(_, _)
ApplyUpdates(buffers, updates) ==
    IF updates = <<>> THEN buffers
    ELSE ApplyUpdates([buffers EXCEPT ![Head(updates).buffer] = Head(updates).value],
                      Tail(updates))

\* data = tensor.concatenate([spectrum, f0_pr, voiced_pr], 2)
Frame(d, t) == d.spectrum[t] \o <<d.f0[t], d.voiced[t]>>
\* inputs that are the frames the steps are costed against, data[1:]
InputsShifted(d) == [t \in 1..(Len(d.f0) - 1) |-> Frame(d, t + 1)]

\* x = data[:-1]
Inputs(d) == [t \in 1..(Len(d.f0) - 1) |-> Frame(d, t)]

ForwardResult(x, states, readouts, frame_cost) ==
    [frame_cost |-> frame_cost, x |-> x, states |-> states, readouts |-> readouts]

\* cost_f0 + cost_gmm of every frame (lines 516-570)
ParrotFrameCosts(d, x, readouts) ==
    LET target_f0 == Rest(d.f0)
        target_voiced == Rest(d.voiced)
        target_spectrum == Rest(d.spectrum)
    IN  [t \in 1..Len(x) |->
            F0Cost(<<readouts[t]>>, target_f0[t], target_voiced[t]) +
            SpectrumCost(readouts[t], <<target_f0[t], target_voiced[t]>>,
                         x[t], target_spectrum[t])]

\* Parrot.compute_cost up to the per-frame cost (lines 433-570), on the data
\* d = [f0, voiced, spectrum] from the persisted buffers init: the scan, the
\* readouts, the costs
ParrotFromReadouts(d, x, states, readouts) ==
    ForwardResult(x, states, readouts, ParrotFrameCosts(d, x, readouts))
ParrotFromStates(d, x, states) ==
    ParrotFromReadouts(d, x, states,
                       [t \in 1..Len(states) |-> ParrotReadout(states[t])])
ParrotFromInputs(d, x, ctx, init) ==
    ParrotFromStates(d, x, ParrotScan(x, init, ctx))
ParrotForward(d, transcripts, transcripts_mask, init) ==
    ParrotFromInputs(d, Inputs(d), TranscriptsOh(transcripts, transcripts_mask), init)

\* an updates list that leaves out the pair of initial_kappa
ParrotUpdatesNoKappa(start_flag, last) ==
    << [buffer |-> "h1", value |-> Switch(start_flag, 0, last.h1)],
       [buffer |-> "h2", value |-> Switch(start_flag, 0, last.h2)],
       [buffer |-> "h3", value |-> Switch(start_flag, 0, last.h3)],
       [buffer |-> "w", value |-> Switch(start_flag, Zeros(num_letters), last.w)] >>

\* the updates list of Parrot.compute_cost (lines 574-589): one pair per
\* buffer, from the states of the last step
ParrotUpdates(start_flag, last) ==
    << [buffer |-> "h1", value |-> Switch(start_flag, 0, last.h1)],
       [buffer |-> "h2", value |-> Switch(start_flag, 0, last.h2)],
       [buffer |-> "h3", value |-> Switch(start_flag, 0, last.h3)],
       [buffer |-> "kappa", value |-> Switch(start_flag, 0, last.kappa)],
       [buffer |-> "w", value |-> Switch(start_flag, Zeros(num_letters), last.w)] >>

\* updates that keep the state of the first step instead of the last
ParrotFinishFirst(fwd, f0_mask, start_flag) ==
    [cost |-> MaskedCost(fwd.frame_cost, Rest(f0_mask)),
     frame_cost |-> fwd.frame_cost,
     x |-> fwd.x,
     states |-> fwd.states,
     readouts |-> fwd.readouts,
     updates |-> ParrotUpdates(start_flag, fwd.states[1])]

\* the masked cost and the updates of Parrot.compute_cost (lines 571-591)
ParrotFinish(fwd, f0_mask, start_flag) ==
    [cost |-> MaskedCost(fwd.frame_cost, Rest(f0_mask)),
     frame_cost |-> fwd.frame_cost,
     x |-> fwd.x,
     states |-> fwd.states,
     readouts |-> fwd.readouts,
     updates |-> ParrotUpdates(start_flag, Last(fwd.states))]

\* -------------------------------------------------- SimpleParrot (1 layer)
SimpleZeroState == [h1 |-> 0, kappa |-> 0, w |-> Zeros(num_letters)]

SimpleStateOf(r) == [h1 |-> r.h1, kappa |-> r.kappa, w |-> r.w]

SimpleStepResult(h1_t, att) ==
    [h1 |-> h1_t, kappa |-> att.kappa, w |-> att.w, phi |-> att.phi, a |-> att.a]

\* SimpleParrot.compute_cost.step: h1_t, then the attention
SimpleFromH1(s, ctx, h1_t) ==
    SimpleStepResult(h1_t, AttendMult(AttParams(h1_t), s.kappa, ctx))
SimpleStep(x_t, s, ctx) == SimpleFromH1(s, ctx, Layer1(x_t, s))

RECURSIVE SimpleScan(_, _, _)
SimpleScanFrom(s1, rest, ctx) == <<s1>> \o SimpleScan(rest, s1, ctx)
SimpleScan(x, s, ctx) ==
    IF x = <<>> THEN <<>>
    ELSE SimpleScanFrom(SimpleStateOf(SimpleStep(Head(x), s, ctx)), Tail(x), ctx)

SimpleReadout(s) ==
    Linear(h1_to_readout, <<s.h1>>) + Linear(att_to_readout, s.w)

\* cost_f0 + cost_gmm of every frame (lines 911-921)
SimpleFrameCosts(d, x, readouts) ==
    LET target_f0 == Rest(d.f0)
        target_voiced == Rest(d.voiced)
        target_spectrum == Rest(d.spectrum)
    IN  [t \in 1..Len(x) |->
            F0Cost(<<readouts[t]>>, target_f0[t], target_voiced[t]) +
            GMMCost(spectrum_gmm, num_freq, k_spectrum,
                    <<readouts[t]>>, target_spectrum[t])]

\* SimpleParrot.compute_cost up to the per-frame cost (lines 857-921)
SimpleFromReadouts(d, x, states, readouts) ==
    ForwardResult(x, states, readouts, SimpleFrameCosts(d, x, readouts))
SimpleFromStates(d, x, states) ==
    SimpleFromReadouts(d, x, states,
                       [t \in 1..Len(states) |-> SimpleReadout(states[t])])
SimpleFromInputs(d, x, ctx, init) ==
    SimpleFromStates(d, x, SimpleScan(x, init, ctx))
SimpleForward(d, transcripts, transcripts_mask, init) ==
    SimpleFromInputs(d, Inputs(d), TranscriptsOh(transcripts, transcripts_mask), init)

\* the updates list of SimpleParrot.compute_cost (lines 925-934)
SimpleUpdates(start_flag, last) ==
    << [buffer |-> "h1", value |-> Switch(start_flag, 0, last.h1)],
       [buffer |-> "kappa", value |-> Switch(start_flag, 0, last.kappa)],
       [buffer |-> "w", value |-> Switch(start_flag, Zeros(num_letters), last.w)] >>

\* updates that keep the state of the last step whose mask is not zero
SimpleFinishMasked(fwd, f0_mask, start_flag) ==
    LET mask == Rest(f0_mask)
        valid == {t \in 1..Len(mask) : mask[t] # 0}
        last == IF valid = {} THEN Len(mask)
                ELSE CHOOSE t \in valid : \A u \in valid : u <= t
    IN  [cost |-> MaskedCost(fwd.frame_cost, mask),
         frame_cost |-> fwd.frame_cost,
         x |-> fwd.x,
         states |-> fwd.states,
         readouts |-> fwd.readouts,
         updates |-> SimpleUpdates(start_flag, fwd.states[last])]

\* the masked cost and the updates of SimpleParrot.compute_cost (lines 922-936)
SimpleFinish(fwd, f0_mask, start_flag) ==
    [cost |-> MaskedCost(fwd.frame_cost, Rest(f0_mask)),
     frame_cost |-> fwd.frame_cost,
     x |-> fwd.x,
     states |-> fwd.states,
     readouts |-> fwd.readouts,
     updates |-> SimpleUpdates(start_flag, Last(fwd.states))]

\* ---------------------------------------------------------------- sampling
ZeroFrame == Zeros(num_freq + 2)
F0Pair(fv) == <<fv.f0, fv.voiced>>

\* theano.scan(fn=sample_step, n_steps=self.num_freq, ...) of sample_one_step:
\* every bin consumes the bin sampled before it; idx and noise are the draws
\* of the bins
RECURSIVE Rnn2Sample(_, _, _, _, _)
\* a step that hands a zero, not the sampled bin, to the next bin
Rnn2SampleFromXZero(c, x_t, h1_t, idx, noise) ==
    <<[x |-> x_t, h |-> h1_t,
       pi |-> Components(spectrum_gmm, 1, k_spectrum, sampling_bias,
                         <<h1_t>>).weight]>> \o
    Rnn2Sample(c, 0, h1_t, Tail(idx), Tail(noise))
Rnn2SampleFromX(c, x_t, h1_t, idx, noise) ==
    <<[x |-> x_t, h |-> h1_t,
       pi |-> Components(spectrum_gmm, 1, k_spectrum, sampling_bias,
                         <<h1_t>>).weight]>> \o
    Rnn2Sample(c, x_t, h1_t, Tail(idx), Tail(noise))
Rnn2SampleFromH(c, h1_t, idx, noise) ==
    Rnn2SampleFromX(c, GMMEmit(spectrum_gmm, 1, k_spectrum, <<h1_t>>,
                               Head(idx), <<Head(noise)>>)[1],
                    h1_t, idx, noise)
Rnn2Sample(c, x_tm1, h1_tm1, idx, noise) ==
    IF idx = <<>> THEN <<>>
    ELSE Rnn2SampleFromH(c, Cell(AddFork(Fork(spectrum_to_rnn2, <<x_tm1>>), c),
                                 h1_tm1), idx, noise)

\* the function Parrot.sample_one_step compiles: its list of outputs
\* [new_x, pi, phi_t, a_t] and the updates of its shared buffers s; in the
\* order of the code: the step r, the readout, (f0, voiced), the bins
OneStepResult(r, fv, bins) ==
    [outputs |-> << [j \in 1..num_freq |-> bins[j].x] \o F0Pair(fv),
                    [j \in 1..num_freq |-> bins[j].pi], r.phi, r.a >>,
     updates |-> StateOf(r),
     bins |-> bins]
OneStepFromF0(initial_x, r, readout_t, fv, dr) ==
    OneStepResult(r, fv,
                  Rnn2Sample(Rnn2Context(readout_t, F0Pair(fv), initial_x),
                             0, 0, dr.idx_sp, dr.noise_sp))
OneStepFromReadout(initial_x, r, readout_t, dr) ==
    OneStepFromF0(initial_x, r, readout_t,
                  F0Emit(<<readout_t>>, dr.un, dr.idx_f0, dr.noise_f0,
                         F0Lower, F0Upper), dr)
OneStepFromStep(initial_x, r, dr) ==
    OneStepFromReadout(initial_x, r, ParrotReadout(r), dr)
ParrotSampleOneStep(initial_x, transcripts, transcripts_mask, s, dr) ==
    OneStepFromStep(initial_x,
                    ParrotStep(initial_x, s,
                               TranscriptsOh(transcripts, transcripts_mask)), dr)

\* the shapes of the arrays one_step returns, for num_samples = 1
OutputShapes(len) ==
    << <<1, num_freq + 2>>, <<num_freq, 1, k_spectrum>>, <<1, len>>, <<1, 1, 1>> >>

\* numpy: a list of arrays converts to one array when its arrays have one
\* shape, and a value can be stored in a row when it broadcasts to the row
ListShape(shapes) ==
    [ok |-> \A i \in 1..Len(shapes) : shapes[i] = shapes[1],
     shape |-> <<Len(shapes)>> \o shapes[1]]
Broadcasts(shape, row) ==
    \A i \in 1..Len(shape) :
        LET d == shape[Len(shape) - i + 1]
        IN  IF i <= Len(row) THEN d = 1 \/ d = row[Len(row) - i + 1] ELSE d = 1
CanStore(shapes, row) ==
    LET v == ListShape(shapes)
    IN  v.ok /\ Broadcasts(v.shape, row)

\* the limits of the sampled spectrum (lines 982-988)
LimitSpectrum(spectrum_t) ==
    [j \in 1..Len(spectrum_t) |->
        Max2(Min2(spectrum_t[j], SpectrumUpper), SpectrumLower)]

\* SimpleParrot.sample_model_fun.sample_step, in the order of the code: h1_t,
\* the attention (the step r), the readout, the emitted frame
SampleStepResult(r, readout_t, dr) ==
    [x |-> LimitSpectrum(GMMEmit(spectrum_gmm, num_freq, k_spectrum,
                                 <<readout_t>>, dr.idx_sp, dr.noise_sp)) \o
           F0Pair(F0Emit(<<readout_t>>, dr.un, dr.idx_f0, dr.noise_f0,
                         F0Lower, F0Upper)),
     h1 |-> r.h1, kappa |-> r.kappa, w |-> r.w,
     pi |-> Components(spectrum_gmm, num_freq, k_spectrum, sampling_bias,
                       <<readout_t>>).weight,
     phi |-> r.phi, a |-> r.a]
SampleStepFromStep(r, dr) == SampleStepResult(r, SimpleReadout(r), dr)
SampleStepFromH1(s, ctx, h1_t, dr) ==
    SampleStepFromStep(
        SimpleStepResult(h1_t, AttendFull(AttParams(h1_t), s.kappa, ctx)), dr)
SimpleSampleStep(x_tm1, s, ctx, dr) ==
    SampleStepFromH1(s, ctx, Layer1(x_tm1, s), dr)

\* a scan that feeds every step the initial frame
ScanCarryInitialFrame(r) == [x |-> ZeroFrame, s |-> SimpleStateOf(r)]

\* outputs_info of the scan of sample_model_fun: what a step hands to the next
ScanCarry(r) == [x |-> r.x, s |-> SimpleStateOf(r)]

\* ------------------------------------------------------------------ inputs
\* the frames of an utterance; a chunk is a run of consecutive frames
Utterance ==
    [t \in 1..5 |->
        [spectrum |-> [j \in 1..num_freq |-> (((t + j) % 3) - 1) * One],
         f0 |-> ((t % 3) - 1) * One + 1,
         voiced |-> (t % 2) * One]]

Masks(n) ==
    { [t \in 1..n |-> One], [t \in 1..n |-> 0],
      [t \in 1..n |-> IF t = n THEN 0 ELSE One] }

Data(frames) ==
    [f0 |-> [t \in 1..Len(frames) |-> frames[t].f0],
     voiced |-> [t \in 1..Len(frames) |-> frames[t].voiced],
     spectrum |-> [t \in 1..Len(frames) |-> frames[t].spectrum]]

Chunks ==
    UNION { { SubSeq(Utterance, i, i + n - 1) : i \in 1..(Len(Utterance) - n + 1) } :
            n \in 2..MaxSeqLen }

\* the chunks the next call can be fed after the calls in calls: a chunk that
\* opens an utterance, or the chunk that continues the previous one, whose
\* first frame is the last frame of the previous chunk
NextChunkData(calls) ==
    { Data(c) : c \in { c \in Chunks :
                          \/ c[1] = Utterance[1]
                          \/ /\ calls # <<>>
                             /\ c[1] = [spectrum |-> Last(Last(calls).spectrum),
                                        f0 |-> Last(Last(calls).f0),
                                        voiced |-> Last(Last(calls).voiced)] } }

TranscriptInputs ==
    { [letters |-> <<1, 0, 1>>, mask |-> <<One, One, 0>>],
      [letters |-> <<0, 0, 1>>, mask |-> <<One, One, One>>] }
Flags == {0, One}

\* the draws of theano_rng in one sampling step: the uniform of the voicing
\* flag, the component and the normal noise of each mixture
Uniform == {0, One - 1}
Noise == {-One, One}
ParrotDraws ==
    [un : Uniform, idx_f0 : 1..k_f0, noise_f0 : Noise,
     idx_sp : [1..num_freq -> 1..k_spectrum],
     noise_sp : [1..num_freq -> Noise]]
\* the draws of a direct call of the one-step function
OneStepDraws ==
    { dr \in ParrotDraws :
        /\ dr.idx_f0 = 1
        /\ dr.noise_f0 = One
        /\ \A j \in 1..num_freq : dr.idx_sp[j] = 1 }
SimpleDraws ==
    [un : Uniform, idx_f0 : {1}, noise_f0 : {One},
     idx_sp : 1..k_spectrum,
     noise_sp : { [j \in 1..num_freq |-> n] : n \in Noise }]

\* ------------------------------------------------------------------- state
VARIABLES
    cls,               \* the class of the model object
    fn,                \* the entry point the run drives
    seq_length,        \* the seq_length the cost function was compiled with
    transcripts,       \* the letters of the utterance (phrase)
    transcripts_mask,  \* their validity mask (phrase_mask)
    init,              \* the shared buffers initial_h1, ..., initial_w of compute_cost
    log,               \* the calls of the cost function so far
    cost,              \* the cost the last call returned
    raised,            \* the exception the last call of the cost function raised
    pc,                \* the position of sample_model
    num_steps,         \* its argument num_steps
    sample_state,      \* the recurrent state the sampler carries between steps
    old_x,             \* the value fed to the next sampling step
    results,           \* the frames (and diagnostics) collected so far
    trace,             \* what every sampling step consumed and produced
    step,              \* the loop index
    call,              \* a direct call of an emitter: the method and its arguments
    ret                \* what that call returned

train_vars == <<init, log, cost, raised>>
sample_vars == <<pc, num_steps, sample_state, old_x, results, trace, step>>
emit_vars == <<call, ret>>
vars == <<cls, fn, seq_length, transcripts, transcripts_mask, init, log, cost, raised,
          pc, num_steps, sample_state, old_x, results, trace, step, call, ret>>

ZeroOf(c) == IF c = "Parrot" THEN ZeroState ELSE SimpleZeroState
NdArray(v) == [kind |-> "ndarray", value |-> v]
PyList(v) == [kind |-> "list", value |-> v]

\* initial_states(batch_size): shared_floatx_zeros
Init ==
    /\ cls \in {"Parrot", "SimpleParrot"}
    /\ fn \in {"compute_cost", "sample_model"} \cup
                (IF cls = "Parrot" THEN {"sample_one_step"} ELSE {})
    /\ seq_length \in IF cls = "Parrot" /\ fn = "compute_cost"
                      THEN 1..(MaxSeqLen - 1) ELSE {MaxSeqLen - 1}
    /\ \E tr \in TranscriptInputs :
          transcripts = tr.letters /\ transcripts_mask = tr.mask
    /\ init = ZeroOf(cls)
    /\ log = <<>>
    /\ cost = [num |-> 0, den |-> 1, value |-> 0, mask |-> <<>>, frame_cost |-> <<>>]
    /\ raised = "none"
    /\ pc = IF fn = "sample_model" THEN "start" ELSE "idle"
    /\ num_steps \in IF fn = "sample_model" THEN 0..MaxSteps ELSE {0}
    /\ sample_state = ZeroOf(cls)
    /\ old_x = NdArray(ZeroFrame)
    /\ results = <<>>
    /\ trace = <<>>
    /\ step = 0
    /\ call = [op |-> "none"]
    /\ ret = [op |-> "none"]

\* one call of the compiled cost function, its updates applied: r is what
\* compute_cost returns on (d, f0_mask, start_flag)
Train(r, d, f0_mask, start_flag) ==
    /\ init' = ApplyUpdates(init, r.updates)
    /\ log' = Append(log, [f0 |-> d.f0, voiced |-> d.voiced,
                           spectrum |-> d.spectrum, start_flag |-> start_flag,
                           init |-> init, x |-> r.x, states |-> r.states,
                           readouts |-> r.readouts, updates |-> r.updates])
    /\ cost' = [num |-> r.cost.num, den |-> r.cost.den, value |-> r.cost.value,
                mask |-> Rest(f0_mask), frame_cost |-> r.frame_cost]
    /\ raised' = "none"
    /\ UNCHANGED <<cls, fn, seq_length, transcripts, transcripts_mask>>
    /\ UNCHANGED sample_vars
    /\ UNCHANGED emit_vars

\* Parrot.compute_cost builds seq_length into the graph of the second stage
\* (lines 518-542, 567): the compiled function takes the chunks of
\* seq_length + 1 frames only
ParrotCost ==
    /\ cls = "Parrot"
    /\ fn = "compute_cost"
    /\ Len(log) < MaxCalls
    /\ \E d \in {c \in NextChunkData(log) : Len(c.f0) - 1 = seq_length} :
          \E fwd \in {ParrotForward(d, transcripts, transcripts_mask, init)} :
              \E f0_mask \in Masks(Len(d.f0)), start_flag \in Flags :
                  Train(ParrotFinish(fwd, f0_mask, start_flag),
                        d, f0_mask, start_flag)

\* on a chunk of another length spectrum[1:].reshape((batch_size * seq_length,
\* num_freq)) raises ValueError (lines 520-521): the call returns nothing and
\* no update is applied
ParrotCostRaises ==
    /\ cls = "Parrot"
    /\ fn = "compute_cost"
    /\ Len(log) < MaxCalls
    /\ \E d \in NextChunkData(log) : Len(d.f0) - 1 # seq_length
    /\ raised' = "ValueError"
    /\ UNCHANGED <<cls, fn, seq_length, transcripts, transcripts_mask>>
    /\ UNCHANGED <<init, log, cost>>
    /\ UNCHANGED sample_vars
    /\ UNCHANGED emit_vars

\* SimpleParrot.compute_cost takes seq_length and never reads it (line 855)
SimpleParrotCost ==
    /\ cls = "SimpleParrot"
    /\ fn = "compute_cost"
    /\ Len(log) < MaxCalls
    /\ \E d \in NextChunkData(log) :
          \E fwd \in {SimpleForward(d, transcripts, transcripts_mask, init)} :
              \E f0_mask \in Masks(Len(d.f0)), start_flag \in Flags :
                  Train(SimpleFinish(fwd, f0_mask, start_flag),
                        d, f0_mask, start_flag)

\* the shape of a row results[step], for num_samples = 1
RowShape == <<1, num_freq + 2>>

\* Parrot.sample_model, lines 727-732
ParrotSampleStart ==
    /\ cls = "Parrot"
    /\ fn = "sample_model"
    /\ pc = "start"
    /\ old_x' = NdArray(ZeroFrame)
    /\ sample_state' = ZeroState
    /\ results' = [t \in 1..num_steps |-> ZeroFrame]
    /\ step' = 0
    /\ pc' = "loop"
    /\ UNCHANGED <<cls, fn, seq_length, transcripts, transcripts_mask, num_steps, trace>>
    /\ UNCHANGED train_vars
    /\ UNCHANGED emit_vars

\* one iteration of the loop of Parrot.sample_model, lines 734-738: one_step
\* takes a matrix; results[step] = new_x raises when new_x does not fit a row
ParrotSampleLoop ==
    /\ cls = "Parrot"
    /\ fn = "sample_model"
    /\ pc = "loop"
    /\ step < num_steps
    /\ IF old_x.kind = "ndarray"
       THEN \E dr \in ParrotDraws :
              \E r \in {ParrotSampleOneStep(old_x.value, transcripts,
                                           transcripts_mask, sample_state, dr)} :
              LET new_x == r.outputs
                  fits == CanStore(OutputShapes(Len(transcripts)), RowShape)
              IN  /\ sample_state' = r.updates
                  /\ trace' = Append(trace,
                                [x_in |-> old_x.value, s_in |-> sample_state,
                                 new_x |-> new_x[1], s_out |-> r.updates,
                                 pi |-> new_x[2], phi |-> new_x[3],
                                 a |-> new_x[4], bins |-> r.bins])
                  /\ old_x' = PyList(new_x)
                  /\ results' = IF fits THEN [results EXCEPT ![step + 1] = new_x[1]]
                                ELSE results
                  /\ step' = IF fits THEN step + 1 ELSE step
                  /\ pc' = IF fits THEN "loop" ELSE "raised"
       ELSE /\ pc' = "raised"
            /\ UNCHANGED <<sample_state, trace, old_x, results, step>>
    /\ UNCHANGED <<cls, fn, seq_length, transcripts, transcripts_mask, num_steps>>
    /\ UNCHANGED train_vars
    /\ UNCHANGED emit_vars

\* Parrot.sample_model, line 740
ParrotSampleReturn ==
    /\ cls = "Parrot"
    /\ fn = "sample_model"
    /\ pc = "loop"
    /\ step = num_steps
    /\ pc' = "done"
    /\ UNCHANGED <<cls, fn, seq_length, transcripts, transcripts_mask, num_steps,
                   sample_state, old_x, results, trace, step>>
    /\ UNCHANGED train_vars
    /\ UNCHANGED emit_vars

\* one call of the function sample_one_step returns, by a caller that feeds
\* it the frame of the call before (new_x, the first of its outputs); the
\* buffers are those initial_states created, lines 599-600
ParrotOneStepCall ==
    /\ cls = "Parrot"
    /\ fn = "sample_one_step"
    /\ step < MaxSteps
    /\ \E dr \in OneStepDraws :
          \E r \in {ParrotSampleOneStep(old_x.value, transcripts,
                                       transcripts_mask, sample_state, dr)} :
              /\ sample_state' = r.updates
              /\ trace' = Append(trace,
                            [x_in |-> old_x.value, s_in |-> sample_state,
                             new_x |-> r.outputs[1], s_out |-> r.updates,
                             pi |-> r.outputs[2], phi |-> r.outputs[3],
                             a |-> r.outputs[4], bins |-> r.bins])
              /\ old_x' = NdArray(r.outputs[1])
              /\ step' = step + 1
    /\ UNCHANGED <<cls, fn, seq_length, transcripts, transcripts_mask, num_steps, pc, results>>
    /\ UNCHANGED train_vars
    /\ UNCHANGED emit_vars

\* SimpleParrot.sample_model_fun up to the scan, lines 940-949
SimpleSampleStart ==
    /\ cls = "SimpleParrot"
    /\ fn = "sample_model"
    /\ pc = "start"
    /\ old_x' = NdArray(ZeroFrame)
    /\ sample_state' = SimpleZeroState
    /\ results' = [sample_x |-> <<>>, pi |-> <<>>, phi |-> <<>>, pi_att |-> <<>>]
    /\ step' = 0
    /\ pc' = "loop"
    /\ UNCHANGED <<cls, fn, seq_length, transcripts, transcripts_mask, num_steps, trace>>
    /\ UNCHANGED train_vars
    /\ UNCHANGED emit_vars

\* one iteration of theano.scan(fn=sample_step, n_steps=n_steps, ...), lines
\* 996-1006
SimpleSampleLoop ==
    /\ cls = "SimpleParrot"
    /\ fn = "sample_model"
    /\ pc = "loop"
    /\ step < num_steps
    /\ \E dr \in SimpleDraws :
          \E r \in {SimpleSampleStep(old_x.value, sample_state,
                                     TranscriptsOh(transcripts, transcripts_mask),
                                     dr)} :
          LET c == ScanCarry(r)
          IN  /\ old_x' = NdArray(c.x)
              /\ sample_state' = c.s
              /\ trace' = Append(trace,
                            [x_in |-> old_x.value, s_in |-> sample_state,
                             new_x |-> r.x, s_out |-> SimpleStateOf(r),
                             pi |-> r.pi, phi |-> r.phi, a |-> r.a])
              /\ results' = [sample_x |-> Append(results.sample_x, r.x),
                             pi |-> Append(results.pi, r.pi),
                             phi |-> Append(results.phi, r.phi),
                             pi_att |-> Append(results.pi_att, r.a)]
              /\ step' = step + 1
    /\ UNCHANGED <<cls, fn, seq_length, transcripts, transcripts_mask, num_steps, pc>>
    /\ UNCHANGED train_vars
    /\ UNCHANGED emit_vars

\* SimpleParrot.sample_model_fun, line 1008, and sample_model, lines 1020-1023
SimpleSampleReturn ==
    /\ cls = "SimpleParrot"
    /\ fn = "sample_model"
    /\ pc = "loop"
    /\ step = num_steps
    /\ pc' = "done"
    /\ UNCHANGED <<cls, fn, seq_length, transcripts, transcripts_mask, num_steps,
                   sample_state, old_x, results, trace, step>>
    /\ UNCHANGED train_vars
    /\ UNCHANGED emit_vars

Next ==
    \/ ParrotCost
    \/ ParrotCostRaises
    \/ SimpleParrotCost
    \/ ParrotSampleStart
    \/ ParrotSampleLoop
    \/ ParrotSampleReturn
    \/ ParrotOneStepCall
    \/ SimpleSampleStart
    \/ SimpleSampleLoop
    \/ SimpleSampleReturn

Spec == Init /\ [][Next]_vars

\* ------------------------------------------------- the emitters on their own
\* the arguments of the direct calls
EmitReadouts == (-MaxReadout)..MaxReadout
EmitTargets == {-(2 * One), -One, 0, 1, One, 2 * One}
EmitBiases == {0, One}
EmitNoise == {-(2 * One), -One, 0, One, 2 * One}
EmitLimits == {-One, 0, 2 * One}
\* the rows of logsumexp: 1..MaxRow entries
RowValues == {-(4 * One), -One, 0, 1, One, 3 * One}
Rows == UNION { [1..n -> RowValues] : n \in 1..MaxRow }
\* the mixtures the models build: (linear brick, dim, k)
Mixtures ==
    { [seed |-> f0_gmm, dim |-> 1, k |-> k_f0],
      [seed |-> spectrum_gmm, dim |-> 1, k |-> k_spectrum],
      [seed |-> spectrum_gmm, dim |-> num_freq, k |-> k_spectrum] }

EmitCalls ==
    [op : {"F0Emitter.cost"}, readouts : EmitReadouts, f0 : EmitTargets,
     voiced : {0, One}]
    \cup
    [op : {"GMMEmitter.components"}, readouts : EmitReadouts, gmm : Mixtures,
     bias : EmitBiases]
    \cup
    [op : {"F0Emitter.emit"}, readouts : EmitReadouts, un : 0..(One - 1),
     idx : 1..k_f0, noise : EmitNoise, lower : EmitLimits, upper : EmitLimits]
    \cup
    [op : {"logsumexp"}, x : Rows]

InitEmit ==
    /\ cls = "Parrot"
    /\ fn = "emitter"
    /\ seq_length = MaxSeqLen - 1
    /\ transcripts = <<>>
    /\ transcripts_mask = <<>>
    /\ init = ZeroState
    /\ log = <<>>
    /\ cost = [num |-> 0, den |-> 1, value |-> 0, mask |-> <<>>, frame_cost |-> <<>>]
    /\ raised = "none"
    /\ pc = "idle"
    /\ num_steps = 0
    /\ sample_state = ZeroState
    /\ old_x = NdArray(ZeroFrame)
    /\ results = <<>>
    /\ trace = <<>>
    /\ step = 0
    /\ call \in EmitCalls
    /\ ret = [op |-> "none"]

Returns(r) ==
    /\ fn = "emitter"
    /\ ret.op = "none"
    /\ ret' = r
    /\ UNCHANGED <<cls, fn, seq_length, transcripts, transcripts_mask, call>>
    /\ UNCHANGED train_vars
    /\ UNCHANGED sample_vars

\* F0Emitter.cost(readouts, f0, voiced)
F0EmitterCost ==
    /\ call.op = "F0Emitter.cost"
    /\ Returns([op |-> call.op,
                cost |-> F0Cost(<<call.readouts>>, call.f0, call.voiced)])

\* GMMEmitter.components(inputs)
GMMEmitterComponents ==
    /\ call.op = "GMMEmitter.components"
    /\ \E c \in {Components(call.gmm.seed, call.gmm.dim, call.gmm.k, call.bias,
                            <<call.readouts>>)} :
          Returns([op |-> call.op, mu |-> c.mu, sigma |-> c.sigma,
                   weight |-> c.weight])

\* F0Emitter.emit(readouts)
F0EmitterEmit ==
    /\ call.op = "F0Emitter.emit"
    /\ \E fv \in {F0Emit(<<call.readouts>>, call.un, call.idx, call.noise,
                         call.lower, call.upper)} :
          Returns([op |-> call.op, f0 |-> fv.f0, voiced |-> fv.voiced])

\* logsumexp(x, axis=-1) on one row
LogSumExpCall ==
    /\ call.op = "logsumexp"
    /\ Returns([op |-> call.op,
                args |-> LogSumExpArgs(call.x),
                total |-> LogSumExpSum(LogSumExpArgs(call.x)),
                z |-> logsumexp(call.x)])

NextEmit ==
    \/ F0EmitterCost
    \/ GMMEmitterComponents
    \/ F0EmitterEmit
    \/ LogSumExpCall

SpecEmit == InitEmit /\ [][NextEmit]_vars

\* ------------------------------------------------------ claims, training
Ctx == TranscriptsOh(transcripts, transcripts_mask)
\* the recurrence of the model object, from the state s
ScanOf(x, s) ==
    IF cls = "Parrot" THEN ParrotScan(x, s, Ctx) ELSE SimpleScan(x, s, Ctx)
\* the buffers after call i of the log, its updates applied
BuffersAfter(i) == IF i < Len(log) THEN log[i + 1].init ELSE init
\* the frames of two calls, one after the other
CatData(A, B) ==
    [f0 |-> A.f0 \o B.f0, voiced |-> A.voiced \o B.voiced,
     spectrum |-> A.spectrum \o B.spectrum]
\* the frames of call A, then those of call B after its first
JoinData(A, B) ==
    [f0 |-> A.f0 \o Rest(B.f0), voiced |-> A.voiced \o Rest(B.voiced),
     spectrum |-> A.spectrum \o Rest(B.spectrum)]
\* the call made last and the one before it: the log only grows, so what
\* holds of them in every reachable state holds of every call
LastCall == {Len(log)} \ {0}
LastCalls == {Len(log) - 1, Len(log)} \ {-1, 0}
\* two consecutive calls with start_flag = 0, the first from zeroed buffers
CarriedPair(i) ==
    /\ i + 1 <= Len(log)
    /\ log[i].init = ZeroOf(cls)
    /\ log[i].start_flag = 0
    /\ log[i + 1].start_flag = 0

\* C1 as stated: from zeroed buffers, chunk A and then chunk B with
\* start_flag = 0 give the same sequence of states and the same final state
\* as one run on the concatenated sequence A followed by B with start_flag = 1
\* at the start.
C1_ChunksEqualConcatenation ==
    \A i \in 1..Len(log) :
        CarriedPair(i) =>
            LET run == ScanOf(Inputs(CatData(log[i], log[i + 1])), ZeroOf(cls))
            IN  /\ run = log[i].states \o log[i + 1].states
                /\ Last(run) = Last(log[i + 1].states)

\* C1 amended: when chunk B begins with the last frame of A, the two calls
\* give the same sequence of states and the same last state as one run from
\* zeroed buffers on A followed by the frames of B after the shared one;
\* the buffers the two calls leave are that last state, as the single run
\* leaves them with start_flag = 0.
C1_ChunksEqualJoinedRun ==
    \A i \in LastCalls :
        (CarriedPair(i) /\
         Frame(log[i + 1], 1) = Frame(log[i], Len(log[i].f0))) =>
            LET run == ScanOf(Inputs(JoinData(log[i], log[i + 1])), ZeroOf(cls))
            IN  /\ run = log[i].states \o log[i + 1].states
                /\ Last(run) = Last(log[i + 1].states)
                /\ Switch(0, ZeroOf(cls), Last(run)) = BuffersAfter(i + 1)

\* two chunks that share their boundary frame, the second of which starts
\* from a state that is not the zero state
C1_Witness ==
    /\ Len(log) >= 2
    /\ CarriedPair(1)
    /\ Frame(log[2], 1) = Frame(log[1], Len(log[1].f0))
    /\ Len(log[1].states) >= 2
    /\ log[2].init # ZeroOf(cls)
    /\ log[2].states # ScanOf(log[2].x, ZeroOf(cls))

\* C2 as stated: a chunk processed with start_flag = 1 begins its recurrence
\* from the all-zero hidden and attention state, whatever the preceding
\* chunks left in the buffers.
C2_FlaggedChunkStartsFromZero ==
    \A i \in 1..Len(log) :
        log[i].start_flag # 0 =>
            /\ log[i].init = ZeroOf(cls)
            /\ log[i].states = ScanOf(log[i].x, ZeroOf(cls))

\* C3: after a call with start_flag = 0, its updates applied, every buffer
\* holds the state of the chunk's last time step, and the recurrence of the
\* next chunk starts from exactly that state.
C3_TerminalIsInitial ==
    \A i \in LastCalls :
        log[i].start_flag = 0 =>
            /\ BuffersAfter(i) = Last(log[i].states)
            /\ i < Len(log) =>
                  log[i + 1].states = ScanOf(log[i + 1].x, Last(log[i].states))

\* a chunk that leaves a non-zero state, from which the next chunk runs
C3_Witness ==
    /\ Len(log) >= 2
    /\ log[1].start_flag = 0
    /\ Last(log[1].states) # ZeroOf(cls)
    /\ log[2].init = Last(log[1].states)
    /\ log[2].states # ScanOf(log[2].x, ZeroOf(cls))

\* C4 as stated: kappa is non-decreasing within an utterance: in every step
\* of the training recurrence and of the sampling recurrence kappa_t >=
\* kappa_{t-1}, and the first kappa of a chunk processed with start_flag = 0
\* is >= the last kappa of the chunk before it.
C4_KappaNonDecreasing ==
    /\ \A i \in 1..Len(log) :
          \A t \in 1..Len(log[i].states) :
              log[i].states[t].kappa >=
                  (IF t = 1 THEN log[i].init.kappa ELSE log[i].states[t - 1].kappa)
    /\ \A t \in 1..Len(trace) : trace[t].s_out.kappa >= trace[t].s_in.kappa
    /\ \A i \in 2..Len(log) :
          log[i].start_flag = 0 =>
              log[i].states[1].kappa >= Last(log[i - 1].states).kappa

\* C8: the cost is sum(cost * mask) / (sum(mask) + epsilon): the denominator
\* is strictly positive for every 0/1 mask; with an all-zero mask it is
\* epsilon and the cost is 0; frames with mask = 0 add nothing to the
\* numerator.
C8_MaskedCost ==
    Len(log) > 0 =>
        /\ cost.den > 0
        /\ cost.den = SumSeq(cost.mask) + MaskEpsilon
        /\ cost.num = SumSeq([t \in 1..Len(cost.mask) |->
                                 IF cost.mask[t] = 0 THEN 0 ELSE cost.frame_cost[t]])
        /\ cost.value = (cost.num * One) \div cost.den
        /\ (\A t \in 1..Len(cost.mask) : cost.mask[t] = 0) =>
              (cost.den = MaskEpsilon /\ cost.value = 0)

\* an all-zero mask over frames whose costs are not zero
C8_Witness ==
    /\ Len(log) > 0
    /\ \A t \in 1..Len(cost.mask) : cost.mask[t] = 0
    /\ \E t \in 1..Len(cost.mask) : cost.frame_cost[t] # 0
    /\ cost.value = 0

\* ------------------------------------------------------ claims, sampling
\* C5 as stated: Parrot.sample_model is strictly autoregressive: step 0 is
\* fed the all-zero frame of width num_freq + 2, every later step the frame
\* the step before it generated, which is also what results holds for that
\* step; the call returns, and results then holds num_steps frames.
C5_ParrotAutoregressive ==
    (cls = "Parrot" /\ fn = "sample_model") =>
        /\ \A t \in 1..Len(trace) :
              trace[t].x_in = (IF t = 1 THEN ZeroFrame ELSE trace[t - 1].new_x)
        /\ \A t \in 1..Len(trace) : results[t] = trace[t].new_x
        /\ pc = "done" => (Len(trace) = num_steps /\ Len(results) = num_steps)
        /\ pc # "raised"

\* C6: SimpleParrot.sample_model_fun runs exactly n_steps steps; step 0
\* consumes the all-zero frame and the zero state, every later step the
\* frame, hidden state, kappa and w of the step before it; it returns the
\* stacked frames with the mixture weights and the attention window values.
C6_SimpleAutoregressive ==
    (cls = "SimpleParrot" /\ fn = "sample_model") =>
        /\ Len(trace) <= num_steps
        /\ step = Len(trace)
        /\ pc # "raised"
        /\ \A t \in 1..Len(trace) :
              /\ trace[t].x_in = (IF t = 1 THEN ZeroFrame ELSE trace[t - 1].new_x)
              /\ trace[t].s_in = (IF t = 1 THEN SimpleZeroState
                                            ELSE trace[t - 1].s_out)
              /\ trace[t].s_out.h1 = Layer1(trace[t].x_in, trace[t].s_in)
        /\ pc = "done" =>
              /\ Len(trace) = num_steps
              /\ results.sample_x = [t \in 1..num_steps |-> trace[t].new_x]
              /\ results.pi = [t \in 1..num_steps |-> trace[t].pi]
              /\ results.phi = [t \in 1..num_steps |-> trace[t].phi]
              /\ results.pi_att = [t \in 1..num_steps |-> trace[t].a]

\* a finished run of two steps or more whose second step consumed a frame
\* and a state that are not the initial ones
C6_Witness ==
    /\ cls = "SimpleParrot"
    /\ fn = "sample_model"
    /\ pc = "done"
    /\ Len(trace) >= 2
    /\ trace[1].new_x # ZeroFrame
    /\ trace[2].x_in = trace[1].new_x
    /\ trace[2].s_in # SimpleZeroState
    /\ Len(results.sample_x) = num_steps

\* ------------------------------------------------------ claims, emitters
\* C7: for a frame with voiced = 0 the GMM negative log-likelihood of f0
\* contributes exactly 0 to F0Emitter.cost, whatever the f0 target and the
\* predicted mixture: the cost is the voicing cross-entropy term alone, and
\* it is the same for every f0 target.
C7_UnvoicedCostIsCrossEntropy ==
    (ret.op = "F0Emitter.cost" /\ call.voiced = 0) =>
        /\ ret.cost = -F0CrossEntropy(<<call.readouts>>, 0)
        /\ \A f0 \in EmitTargets : F0Cost(<<call.readouts>>, f0, 0) = ret.cost

\* an unvoiced frame whose f0 target has a non-zero likelihood term
C7_Witness ==
    /\ ret.op = "F0Emitter.cost"
    /\ call.voiced = 0
    /\ GMMCost(f0_gmm, 1, k_f0, <<call.readouts>>, <<call.f0>>) # 0
    /\ ret.cost # 0

\* C9: the k mixture weights GMMEmitter.components returns are each at least
\* epsilon (so strictly positive) and sum to 1 + k * epsilon: the floor is
\* added after the softmax and the weights are not renormalised.
C9_WeightsFloorAndSum ==
    ret.op = "GMMEmitter.components" =>
        LET w == ret.weight
            k == call.gmm.k
        IN  /\ Len(w.num) = k
            /\ w.den > 0
            /\ \A c \in 1..k : w.num[c] > 0 /\ w.num[c] * One >= Epsilon * w.den
            /\ SumSeq(w.num) * One = w.den * One + k * Epsilon * w.den

\* a mixture with a component whose softmax underflows: its weight is the
\* floor epsilon itself
C9_Witness ==
    /\ ret.op = "GMMEmitter.components"
    /\ \E c \in 1..call.gmm.k : ret.weight.num[c] * One = Epsilon * ret.weight.den
    /\ \E c \in 1..call.gmm.k : ret.weight.num[c] * One > Epsilon * ret.weight.den

\* C10: F0Emitter.emit returns (f0, voiced) with voiced in {0, 1}; voiced = 0
\* implies f0 = 0, and voiced = 1 implies that f0 lies in the closed interval
\* [lower, upper] of the standardized limits, given lower <= upper.
C10_EmitRange ==
    ret.op = "F0Emitter.emit" =>
        /\ ret.voiced \in {0, One}
        /\ ret.voiced = 0 => ret.f0 = 0
        /\ (ret.voiced = One /\ call.lower <= call.upper) =>
              (call.lower <= ret.f0 /\ ret.f0 <= call.upper)

\* a voiced sample below the lower limit, which the emitter raised to it
C10_Witness ==
    /\ ret.op = "F0Emitter.emit"
    /\ ret.voiced = One
    /\ call.lower < call.upper
    /\ GMMEmit(f0_gmm, 1, k_f0, <<call.readouts>>, call.idx, <<call.noise>>)[1]
          < call.lower
    /\ ret.f0 = call.lower

\* ------------------------------------------ claims, buffers and ordering
\* the names of the persisted buffers of the model object
BufferNames == DOMAIN ZeroOf(cls)

\* C11: every compute_cost call reads the buffers only as the initial value
\* of its recurrence and yields exactly one update pair per buffer, computed
\* from the state of the last step of the whole pass; the buffers after the
\* call are the buffers before it with each pair written once.
C11_BuffersWrittenOncePerChunk ==
    \A i \in LastCall :
        LET ups == log[i].updates
        IN  /\ Len(ups) = Cardinality(BufferNames)
            /\ \A b \in BufferNames :
                  Cardinality({j \in 1..Len(ups) : ups[j].buffer = b}) = 1
            /\ log[i].states = ScanOf(log[i].x, log[i].init)
            /\ \A j \in 1..Len(ups) :
                  ups[j].value = Switch(log[i].start_flag,
                                        ZeroOf(cls)[ups[j].buffer],
                                        Last(log[i].states)[ups[j].buffer])
            /\ BuffersAfter(i) = ApplyUpdates(log[i].init, ups)

\* a second chunk of two steps or more that starts from buffers that are not
\* zero and leaves other values in them
C11_Witness ==
    /\ Len(log) >= 2
    /\ log[2].init # ZeroOf(cls)
    /\ Len(log[2].states) >= 2
    /\ log[2].states[1] # Last(log[2].states)
    /\ BuffersAfter(2) # log[2].init
    /\ BuffersAfter(2) = Last(log[2].states)

\* the context of the second stage for frame t of the logged call e
LoggedRnn2Context(e, t) ==
    Rnn2Context(e.readouts[t], <<e.f0[t + 1], e.voiced[t + 1]>>, e.x[t])

\* the hidden states of teacher forcing, bin by bin: bin 1 from a zero input
\* and a zero state, bin j from the target of bin j - 1 and the state of
\* bin j - 1
TeacherForced(target, c) ==
    LET h[j \in 1..Len(target)] ==
            Cell(AddFork(Fork(spectrum_to_rnn2,
                              <<IF j = 1 THEN 0 ELSE target[j - 1]>>), c),
                 IF j = 1 THEN 0 ELSE h[j - 1])
    IN  [j \in 1..Len(target) |-> h[j]]

\* C12: in the training cost of Parrot the second-stage input of bin 0 is
\* zero and of bin j >= 1 the target of bin j - 1 of the same frame, the
\* hidden state starts from zero in every frame, and the hidden state that
\* costs bin j does not change when bin j or a later bin of the target
\* changes.
C12_TeacherForcing ==
    (cls = "Parrot" /\ Len(log) > 0) =>
        \A t \in 1..Len(log[Len(log)].x) :
            LET e == log[Len(log)]
                target == e.spectrum[t + 1]
                h == TeacherForced(target, LoggedRnn2Context(e, t))
            IN  /\ cost.frame_cost[t] =
                      F0Cost(<<e.readouts[t]>>, e.f0[t + 1], e.voiced[t + 1]) +
                      SumSeq([j \in 1..num_freq |->
                                 GMMCost(spectrum_gmm, 1, k_spectrum,
                                         <<h[j]>>, <<target[j]>>)])
                /\ \A j \in 1..num_freq, v \in {-One, 0, One} :
                      Rnn2Scan(InputSpectrum([b \in 1..num_freq |->
                                                 IF b >= j THEN v ELSE target[b]]),
                               LoggedRnn2Context(e, t), 0)[j] = h[j]

\* a frame whose first target bin is not zero and moves the hidden state of
\* the second bin away from the one a zero input gives
C12_Witness ==
    /\ cls = "Parrot"
    /\ Len(log) > 0
    /\ \E t \in 1..Len(log[Len(log)].x) :
          LET e == log[Len(log)]
              target == e.spectrum[t + 1]
              c == LoggedRnn2Context(e, t)
              h == TeacherForced(target, c)
          IN  /\ target[1] # 0
              /\ h[2] # Cell(AddFork(Fork(spectrum_to_rnn2, <<0>>), c), h[1])

\* ------------------------------------------------ claims, second stage
\* the context of the second stage in the sampling step the trace entry e
\* records
TracedRnn2Context(e) ==
    Rnn2Context(ParrotReadout(e.s_out),
                <<e.new_x[num_freq + 1], e.new_x[num_freq + 2]>>, e.x_in)

\* C13: every generated frame of Parrot has exactly num_freq bins; bin 0 is
\* generated from a zero previous-bin value and a zero second-stage hidden
\* state, in the first frame and in every later one; every bin j >= 1
\* consumes the value sampled for bin j - 1 of the same frame and the hidden
\* state of bin j - 1.
C13_Stage2Generation ==
    cls = "Parrot" =>
        \A t \in 1..Len(trace) :
            LET e == trace[t]
                c == TracedRnn2Context(e)
            IN  /\ Len(e.bins) = num_freq
                /\ \A j \in 1..num_freq :
                      /\ e.new_x[j] = e.bins[j].x
                      /\ e.bins[j].h =
                            Cell(AddFork(Fork(spectrum_to_rnn2,
                                              <<IF j = 1 THEN 0
                                                ELSE e.bins[j - 1].x>>), c),
                                 IF j = 1 THEN 0 ELSE e.bins[j - 1].h)

\* a second frame generated after a frame whose last bin and last
\* second-stage hidden state are not zero, and whose own first bin is not
\* zero
C13_Witness ==
    /\ cls = "Parrot"
    /\ Len(trace) >= 2
    /\ trace[1].bins[num_freq].x # 0
    /\ trace[1].bins[num_freq].h # 0
    /\ trace[2].x_in = trace[1].new_x
    /\ trace[2].bins[1].x # 0
    /\ trace[2].bins[2].h #
          Cell(AddFork(Fork(spectrum_to_rnn2, <<0>>), TracedRnn2Context(trace[2])),
               trace[2].bins[1].h)

\* ------------------------------------------------ claims, first stage
\* the order of one step of the three layers, from the state s before it to
\* the state r after it: h1 from the input and the old context s.w, the
\* attention att from the new h1, h2 and h3 from the new context and the new
\* states below them
OrderedFrom(x_t, s, r, att) ==
    /\ r.h1 = Layer1(x_t, s)
    /\ r.kappa = att.kappa
    /\ r.w = att.w
    /\ r.h2 = Layer2(x_t, s, r.h1, r.w)
    /\ r.h3 = Layer3(x_t, s, r.h1, r.h2, r.w)
OrderedStep(x_t, s, r) ==
    OrderedFrom(x_t, s, r, AttendFull(AttParams(r.h1), s.kappa, Ctx))

\* the sampling step made last: the trace only grows
LastStep == {Len(trace)} \ {0}
\* the state before step t of the logged call e
StateBefore(e, t) == IF t = 1 THEN e.init ELSE e.states[t - 1]

\* C14: in every step of the training recurrence of Parrot and in every call
\* of its one-step sampling function, layer 1 is updated from the frame and
\* the context of the step before, the attention (kappa_t, w_t) is computed
\* from the updated h1_t, and layers 2 and 3 use the new context w_t and the
\* updated h1_t (layer 3 also the updated h2_t).
C14_StepOrder ==
    cls = "Parrot" =>
        /\ \A i \in LastCall :
              \A t \in 1..Len(log[i].states) :
                  OrderedStep(log[i].x[t], StateBefore(log[i], t), log[i].states[t])
        /\ \A t \in LastStep :
              OrderedStep(trace[t].x_in, trace[t].s_in, trace[t].s_out)

\* a training step after the first, where the context and h1 change and
\* where layer 2 on the old context, or on the old h1, gives another h2
C14_Witness ==
    /\ cls = "Parrot"
    /\ Len(log) > 0
    /\ \E t \in 2..Len(log[1].states) :
          LET s == log[1].states[t - 1]
              r == log[1].states[t]
              x_t == log[1].x[t]
          IN  /\ r.w # s.w
              /\ r.h1 # s.h1
              /\ s.w # Zeros(num_letters)
              /\ r.h2 # Layer2(x_t, s, r.h1, s.w)
              /\ r.h2 # Layer2(x_t, s, s.h1, r.w)

\* ------------------------------------------------ claims, attention
\* the window weights phi of a step that ends in the state r
PhiOf(r) ==
    Phi(AttParams(r.h1).a, AttParams(r.h1).b, r.kappa, Len(transcripts))

\* what position u adds to component l of the context: nothing when it is
\* masked, phi(u) to the component of its letter when it is valid
Contribution(phi, u, l) ==
    IF transcripts_mask[u] = 0 THEN 0
    ELSE IF transcripts[u] = l - 1 THEN phi[u] ELSE 0

MaskedContext(phi) ==
    [l \in 1..num_letters |->
        SumSeq([u \in 1..Len(transcripts) |-> Contribution(phi, u, l)])]

\* C15: in every step, of training and of sampling, a transcript position
\* with mask 0 contributes 0 to the context w_t whatever its window weight
\* and letter, and a position with mask 1 contributes phi(u) to exactly the
\* component of its letter.
C15_ContextMasked ==
    /\ \A i \in LastCall :
          \A t \in 1..Len(log[i].states) :
              log[i].states[t].w = MaskedContext(PhiOf(log[i].states[t]))
    /\ \A t \in LastStep :
          /\ trace[t].phi = PhiOf(trace[t].s_out)
          /\ trace[t].s_out.w = MaskedContext(trace[t].phi)

\* a training step where a masked position has a window weight that is not
\* zero, next to a valid position that adds its weight to the context
C15_Witness ==
    /\ Len(log) > 0
    /\ \E t \in 1..Len(log[1].states), u, v \in 1..Len(transcripts) :
          /\ transcripts_mask[u] = 0
          /\ PhiOf(log[1].states[t])[u] # 0
          /\ transcripts_mask[v] # 0
          /\ PhiOf(log[1].states[t])[v] # 0
          /\ log[1].states[t].w[transcripts[v] + 1] # 0

\* ------------------------------------------------ claims, logsumexp
\* C16: logsumexp subtracts the maximum of the row before exponentiating:
\* every argument of exp is <= 0 and at least one is exactly 0, so the sum
\* inside the log is >= 1 and the result is >= the maximum of the row.
C16_LogSumExpStable ==
    ret.op = "logsumexp" =>
        /\ Len(ret.args) = Len(call.x)
        /\ \A c \in 1..Len(ret.args) : ret.args[c] <= 0
        /\ \E c \in 1..Len(ret.args) : ret.args[c] = 0
        /\ ret.total >= One
        /\ ret.z >= MaxSeq(call.x)

\* a row with a positive maximum, taken twice, and a smaller entry: the
\* result is above the maximum
C16_Witness ==
    /\ ret.op = "logsumexp"
    /\ Len(call.x) = 3
    /\ MaxSeq(call.x) > 0
    /\ \E c \in 1..3 : ret.args[c] < 0
    /\ ret.total > One
    /\ ret.z > MaxSeq(call.x)

\* ------------------------------------------------ claims, SimpleParrot
\* C17 as stated: in SimpleParrot every sampling step computes the kappa_t
\* the step of the training cost computes from the same previous state and
\* the same output of the attention projection: the same increment is added
\* to kappa_{t-1}.
C17_SameAttentionRecurrence ==
    cls = "SimpleParrot" =>
        \A t \in 1..Len(trace) :
            trace[t].s_out.kappa =
                AttendMult(AttParams(trace[t].s_out.h1), trace[t].s_in.kappa,
                           Ctx).kappa

\* ------------------------------------------------ claims, causality
ReadoutOf(s) == IF cls = "Parrot" THEN ParrotReadout(s) ELSE SimpleReadout(s)

\* the data of the logged call e with every frame after frame t replaced by
\* the frame f
PerturbAfter(e, t, f) ==
    [f0 |-> [u \in 1..Len(e.f0) |-> IF u > t THEN f.f0 ELSE e.f0[u]],
     voiced |-> [u \in 1..Len(e.f0) |-> IF u > t THEN f.voiced ELSE e.voiced[u]],
     spectrum |-> [u \in 1..Len(e.f0) |->
                      IF u > t THEN f.spectrum ELSE e.spectrum[u]]]

\* the frames that replace the later ones
AltFrames ==
    { [spectrum |-> [j \in 1..num_freq |-> 0], f0 |-> One, voiced |-> One] }

\* C18: step t of compute_cost consumes frame t (x = data[:-1]), and the
\* state and the readout of step t depend only on the frames up to t, the
\* transcript and the carried-in state: replacing frame t + 1 and every
\* later frame leaves the states and readouts of steps 1..t unchanged.
\* Stated of the call made last, which every call once is.
C18_Causality ==
    \A i \in LastCall :
        /\ Len(log[i].x) = Len(log[i].f0) - 1
        /\ \A t \in 1..Len(log[i].x) : log[i].x[t] = Frame(log[i], t)
        /\ \A t \in 1..Len(log[i].x), f \in AltFrames :
              LET run == ScanOf(Inputs(PerturbAfter(log[i], t, f)), log[i].init)
              IN  \A u \in 1..t :
                      /\ run[u] = log[i].states[u]
                      /\ ReadoutOf(run[u]) = log[i].readouts[u]

\* a call where replacing the frames after frame t changes the state of
\* step t + 1, whose input frame t + 1 is
C18_Witness ==
    /\ Len(log) > 0
    /\ \E t \in 1..(Len(log[1].x) - 1), f \in AltFrames :
          /\ Frame(log[1], t + 1) # f.spectrum \o <<f.f0, f.voiced>>
          /\ ScanOf(Inputs(PerturbAfter(log[1], t, f)), log[1].init)[t + 1]
                # log[1].states[t + 1]
          /\ ScanOf(Inputs(PerturbAfter(log[1], t, f)), log[1].init)[t]
                = log[1].states[t]

\* ------------------------------------------------ claims, frame mask
\* what compute_cost returns on the forward pass fwd, by class
FinishOf(fwd, f0_mask, start_flag) ==
    IF cls = "Parrot" THEN ParrotFinish(fwd, f0_mask, start_flag)
    ELSE SimpleFinish(fwd, f0_mask, start_flag)

\* the forward pass of the call made last
LastForward ==
    ForwardResult(log[Len(log)].x, log[Len(log)].states,
                  log[Len(log)].readouts, cost.frame_cost)

\* C19: f0_mask affects only the scalar cost: the states of the chunk are
\* the recurrence on its inputs from the buffers, the updates are those of
\* every other mask, and with start_flag = 0 the buffers hold the state of
\* the chunk's last step also when that step has mask 0.  Stated of the call
\* made last, which every call once is.
C19_MaskOnlyInCost ==
    Len(log) > 0 =>
        LET e == log[Len(log)]
        IN  /\ e.states = ScanOf(e.x, e.init)
            /\ \A m \in Masks(Len(e.f0)) :
                  /\ FinishOf(LastForward, m, e.start_flag).states = e.states
                  /\ FinishOf(LastForward, m, e.start_flag).updates = e.updates
            /\ e.updates = FinishOf(LastForward, <<0>> \o cost.mask,
                                    e.start_flag).updates
            /\ e.start_flag = 0 => init = Last(e.states)

\* a call with start_flag = 0 whose last step is padding (mask 0) after
\* valid steps, and whose last state differs from the one before it
C19_Witness ==
    /\ Len(log) > 0
    /\ log[Len(log)].start_flag = 0
    /\ Len(cost.mask) >= 2
    /\ Last(cost.mask) = 0
    /\ cost.mask[1] # 0
    /\ Last(log[Len(log)].states) # log[Len(log)].states[Len(cost.mask) - 1]
    /\ init = Last(log[Len(log)].states)

====
